---- MODULE Spec2Model ----
(***************************************************************************)
(* Model of the tree plugin of seqtc (src/src/plugins/tree.rs):            *)
(* TreePlugin::build_tree reads the taxa, computes the Hamming distance    *)
(* matrix, builds a tree by neighbor joining ("NJ") or by the heuristic    *)
(* likelihood search ("ML"), and writes it in Newick form.                 *)
(*                                                                         *)
(* Conventions.                                                            *)
(*  - Vectors are sequences; the source's 0-based index i is kept and      *)
(*    At(s, i) reads s[i + 1].                                             *)
(*  - An f64 of the distance matrix is the integer k standing for          *)
(*    k / Scale; every value the clustering produces is a dyadic rational  *)
(*    that Scale represents exactly, as f64 does.                          *)
(*  - Option<T> is a sequence: <<>> is None and <<t>> is Some(t).          *)
(*  - A String is a TLA+ string; format! is string concatenation.          *)
(*  - A panic (index out of bounds, unwrap on None) ends the run with      *)
(*    result.status = "panic".                                             *)
(***************************************************************************)
EXTENDS Integers, Sequences, FiniteSets, TLC

\* Largest number of FASTA records of an input.
MaxTaxa == 4

\* Fixed-point denominator of matrix entries: n taxa are halved n - 2 times
\* by the clustering and once more for a node's branch distance.
Scale == 2 ^ MaxTaxa

\* The records an input file is made of: (identifier, sequence).
Pool ==
  { [id |-> "S1", seq |-> <<"A", "A", "A", "A">>],
    [id |-> "S2", seq |-> <<"A", "A", "A", "T">>],
    [id |-> "S3", seq |-> <<"T", "T", "T", "T">>],
    [id |-> "(S1,S2)", seq |-> <<"T", "T", "T", "A">>] }

\* The input files: every list of at most MaxTaxa records.
Inputs == UNION { [1..k -> Pool] : k \in 0..MaxTaxa }

\* The values given to --model.
Models == {"NJ", "ML", "UNKNOWN", "nj"}

VARIABLES
  input,            \* the records of the FASTA file (fa_file)
  model,            \* the selector (model)
  pc,               \* position in build_tree
  names,            \* build_tree: names
  seqs_only,        \* build_tree: seqs_only
  distance_matrix,  \* build_tree: distance_matrix
  n,                \* build_phylogenetic_tree: n
  dist,             \* build_phylogenetic_tree: dist
  node_names,       \* build_phylogenetic_tree: node_names
  tree_nodes,       \* build_phylogenetic_tree: tree_nodes (name -> TreeNode)
  tree,             \* build_tree: tree, as an Option
  best_likelihood,  \* optimize_tree: best_likelihood
  iter,             \* optimize_tree: the iterations of the loop done so far
  outfile,          \* the content of newick_file, as an Option of tokens
  result,           \* what build_tree returned: status and message
  calls,            \* history: the functions build_tree has called
  last,             \* history: the last merge step, as an Option
  run,              \* which run of the program on this input (1 or 2)
  first             \* the outcome of run 1, as an Option

vars == <<input, model, pc, names, seqs_only, distance_matrix, n, dist,
          node_names, tree_nodes, tree, best_likelihood, iter, outfile, result,
          calls, last, run, first>>

\* The locals of build_phylogenetic_tree and of optimize_tree.
njVars == <<n, dist, node_names, tree_nodes, last>>

mlVars == <<best_likelihood, iter>>

\* The input and the run.
inVars == <<input, model, run, first>>

\* The locals of build_tree before the match.
btVars == <<names, seqs_only, distance_matrix>>

----------------------------------------------------------------------------
\* Vectors

At(s, i) == s[i + 1]

Indices(s) == 0..(Len(s) - 1)

\* Vec::remove(i): the elements after index i shift left.
Remove(s, i) == [k \in 1..(Len(s) - 1) |-> IF k <= i THEN s[k] ELSE s[k + 1]]

\* s with the element at index i replaced by v.
SetAt(s, i, v) == [s EXCEPT ![i + 1] = v]

RECURSIVE Sum(_)
Sum(s) == IF s = <<>> THEN 0 ELSE Head(s) + Sum(Tail(s))

Min(a, b) == IF a < b THEN a ELSE b

Range(s) == { s[k] : k \in 1..Len(s) }

RECURSIVE Concat(_)
Concat(toks) == IF toks = <<>> THEN "" ELSE Head(toks) \o Concat(Tail(toks))

RECURSIVE Gcd(_, _)
Gcd(a, b) == IF b = 0 THEN a ELSE Gcd(b, a % b)

----------------------------------------------------------------------------
\* f64 values of a TreeNode's distance

\* The f64 k / Scale.
Num(k) == [kind |-> "num", a |-> k, b |-> Scale]

Zero == Num(0)

Infinity == [kind |-> "inf", a |-> 0, b |-> 1]

NaN == [kind |-> "nan", a |-> 0, b |-> 1]

\* -0.0, the product -0.75 * 0.0.
NegZero == [kind |-> "negzero", a |-> 0, b |-> 1]

\* The f64 -0.75 * ln(1 - 4p/3) for the mismatch proportion p = m / l, 0 < p < 0.75.
JC(m, l) == [kind |-> "jc", a |-> m \div Gcd(m, l), b |-> l \div Gcd(m, l)]

----------------------------------------------------------------------------
\* Distance model

\* hamming_distance: zip stops at the shorter sequence.
hamming_distance(seq1, seq2) ==
  Cardinality({ k \in 1..Min(Len(seq1), Len(seq2)) : seq1[k] # seq2[k] })

\* compute_distance_matrix: the loop over i, and j from i, writes the cell
\* (i, j) and its mirror (j, i); the diagonal keeps 0.0.
compute_distance_matrix(sequences) ==
  [r \in 1..Len(sequences) |->
    [c \in 1..Len(sequences) |->
      IF r = c THEN 0
      ELSE hamming_distance(sequences[Min(r, c)],
                            sequences[IF r < c THEN c ELSE r]) * Scale]]

\* jukes_cantor_distance: p = mismatches / seq1.len(); 0/0 is NaN, which
\* fails p >= 0.75 and comes out of ln as NaN.
jukes_cantor_distance(seq1, seq2) ==
  LET mismatches == hamming_distance(seq1, seq2)
      len == Len(seq1)
  IN  IF len = 0 THEN NaN
      ELSE IF 4 * mismatches >= 3 * len THEN Infinity
      ELSE IF mismatches = 0 THEN NegZero
      ELSE JC(mismatches, len)

----------------------------------------------------------------------------
\* TreeNode

TreeNode(name, left, right, distance) ==
  [name |-> name, left |-> left, right |-> right, distance |-> distance]

\* TreeNode::new
NewNode(name) == TreeNode(name, <<>>, <<>>, Zero)

\* TreeNode::set_children
set_children(node, left, right, distance) ==
  TreeNode(node.name, <<left>>, <<right>>, distance)

IsLeaf(node) == node.left = <<>> /\ node.right = <<>>

\* HashMap::insert: an entry of the same key is replaced.
MapInsert(m, k, v) == [x \in DOMAIN m \cup {k} |-> IF x = k THEN v ELSE m[x]]

\* HashMap::remove: the map without the key.
MapRemove(m, k) == [x \in DOMAIN m \ {k} |-> m[x]]

----------------------------------------------------------------------------
\* Neighbor joining: one iteration of the loop of build_phylogenetic_tree

\* The initial map: one leaf per name, inserted in order.
RECURSIVE InitialNodes(_)
InitialNodes(ns) ==
  IF ns = <<>> THEN << >>
  ELSE LET rest == InitialNodes(SubSeq(ns, 1, Len(ns) - 1))
           name == ns[Len(ns)]
       IN  MapInsert(rest, name, NewNode(name))

\* q_matrix[i][j] for i < j; n as f64 - 2.0 times dist[i][j], less both sums.
QValue(d, nn, i, j) ==
  (nn - 2) * At(At(d, i), j) - Sum(At(d, i)) - Sum(At(d, j))

\* q_matrix: vec![vec![0.0; n]; n] with both triangles filled.
q_matrix(d, nn) ==
  [r \in 1..nn |->
    [c \in 1..nn |->
      IF r = c THEN 0
      ELSE QValue(d, nn, Min(r, c) - 1, (IF r < c THEN c ELSE r) - 1)]]

\* Mutant of ScanMin: an equal value replaces the minimum too (<= for <).
RECURSIVE ScanMinLast(_, _, _, _, _)
ScanMinLast(q, nn, i, j, best) ==
  IF i >= nn THEN best
  ELSE IF j >= nn THEN ScanMinLast(q, nn, i + 1, i + 2, best)
  ELSE ScanMinLast(q, nn, i, j + 1,
                   IF At(At(q, i), j) <= best.min_value
                   THEN [min_value |-> At(At(q, i), j), min_i |-> i, min_j |-> j]
                   ELSE best)

\* The scan for the smallest entry: i ascending, j from i + 1, replaced only
\* by a strictly smaller value.
RECURSIVE ScanMin(_, _, _, _, _)
ScanMin(q, nn, i, j, best) ==
  IF i >= nn THEN best
  ELSE IF j >= nn THEN ScanMin(q, nn, i + 1, i + 2, best)
  ELSE ScanMin(q, nn, i, j + 1,
               IF At(At(q, i), j) < best.min_value
               THEN [min_value |-> At(At(q, i), j), min_i |-> i, min_j |-> j]
               ELSE best)

\* min_i, min_j and min_value after the scan, starting from the pair (0, 1).
FindMin(d, nn) ==
  LET q == q_matrix(d, nn)
  IN  ScanMin(q, nn, 0, 1,
              [min_value |-> At(At(q, 0), 1), min_i |-> 0, min_j |-> 1])

\* format!("({},{})", a, b)
JoinName(a, b) == "(" \o a \o "," \o b \o ")"

\* dist_to_new_node for the active node k.
DistToNewNode(d, min_i, min_j, k) ==
  (At(At(d, min_i), k) + At(At(d, min_j), k) - At(At(d, min_i), min_j)) \div 2

\* The slot of new_dist_row that the loop writes for k: k.min(n - 2).
RowSlot(nn, k) == Min(k, nn - 2)

\* new_dist_row: vec![0.0; n - 1], then for k in 0..n every k other than
\* min_i and min_j writes its slot, a later k over an earlier one.
RECURSIVE FillRow(_, _, _, _, _, _)
FillRow(row, d, nn, min_i, min_j, k) ==
  IF k >= nn THEN row
  ELSE FillRow(IF k # min_i /\ k # min_j
               THEN SetAt(row, RowSlot(nn, k), DistToNewNode(d, min_i, min_j, k))
               ELSE row,
               d, nn, min_i, min_j, k + 1)

new_dist_row(d, nn, min_i, min_j) ==
  FillRow([k \in 1..(nn - 1) |-> 0], d, nn, min_i, min_j, 0)

\* Mutant of PushColumn: the column is read one slot further, new_dist_row[i + 1].
PushColumnShifted(rows, row, nn) ==
  [r \in 1..Len(rows) |->
    IF r - 1 < nn - 2 THEN Append(rows[r], At(row, r)) ELSE rows[r]]

\* The column pushed onto the remaining rows: dist[i].push(new_dist_row[i]).
PushColumn(rows, row, nn) ==
  [r \in 1..Len(rows) |->
    IF r - 1 < nn - 2 THEN Append(rows[r], At(row, r - 1)) ELSE rows[r]]

\* dist after the merge: rows and columns min_j and min_i removed, the new
\* row pushed, and its first n - 2 entries pushed as the new column.
UpdatedDist(d, nn, min_i, min_j) ==
  LET row == new_dist_row(d, nn, min_i, min_j)
      rowsLeft == Remove(Remove(d, min_j), min_i)
      cut == [r \in 1..Len(rowsLeft) |-> Remove(Remove(rowsLeft[r], min_j), min_i)]
  IN  PushColumn(Append(cut, row), row, nn)

\* Mutant of UpdatedNames: the merged name is put first instead of pushed.
UpdatedNamesFront(ns, min_i, min_j) ==
  <<JoinName(At(ns, min_i), At(ns, min_j))>> \o Remove(Remove(ns, min_j), min_i)

\* node_names after the merge.
UpdatedNames(ns, min_i, min_j) ==
  Append(Remove(Remove(ns, min_j), min_i), JoinName(At(ns, min_i), At(ns, min_j)))

----------------------------------------------------------------------------
\* Heuristic likelihood builder

\* The iteration budget of optimize_tree.
Iterations == 100

\* sequence_map: the names zipped with the sequences and inserted in order,
\* a later record of the same name replacing the earlier one.
RECURSIVE sequence_map(_, _)
sequence_map(sequences, ns) ==
  IF ns = <<>> \/ sequences = <<>> THEN << >>
  ELSE LET k == Min(Len(ns), Len(sequences))
       IN  MapInsert(sequence_map(SubSeq(sequences, 1, k - 1), SubSeq(ns, 1, k - 1)),
                     ns[k], sequences[k])

\* The orders in which HashMap::keys may yield the keys of a map: the hasher
\* is seeded at random, so every order is possible.
KeyOrders(m) ==
  { o \in [1..Cardinality(DOMAIN m) -> DOMAIN m] :
      \A a, b \in 1..Cardinality(DOMAIN m) : a # b => o[a] # o[b] }

\* build_initial_tree after the keys order[1..k]: the tree so far becomes the
\* left child of a node named after the new key, whose distance is measured
\* from the sequence of current_tree.name.
RECURSIVE InitialTreeUpTo(_, _, _)
InitialTreeUpTo(sequences, order, k) ==
  IF k = 1 THEN NewNode(order[1])
  ELSE LET current_tree == InitialTreeUpTo(sequences, order, k - 1)
           name == order[k]
           distance == jukes_cantor_distance(sequences[current_tree.name],
                                             sequences[name])
       IN  set_children(NewNode(name), current_tree, NewNode(name), distance)

\* build_initial_tree for a key order of at least one key.
build_initial_tree(sequences, order) ==
  InitialTreeUpTo(sequences, order, Len(order))

\* swap_subtrees: the root's children exchanged when it has both.
swap_subtrees(t) ==
  IF t.left # <<>> /\ t.right # <<>>
  THEN [t EXCEPT !.left = t.right, !.right = t.left]
  ELSE t

\* A likelihood is kept as the fraction num / den of its power 1 / (0.1 * 0.75),
\* an increasing function of it: exp(-0.1 * d) of a Jukes-Cantor distance d for
\* the proportion p is (1 - 4p/3) ^ 0.075. The order of two likelihoods is the
\* order of these fractions.
Lik(num, den) == [nan |-> FALSE, num |-> num, den |-> den]

LikNaN == [nan |-> TRUE, num |-> 0, den |-> 1]

\* transition_prob = exp(-substitution_rate * distance) of a node of the
\* heuristic builder.
TransitionProb(distance) ==
  CASE distance.kind = "jc" -> Lik(3 * distance.b - 4 * distance.a, 3 * distance.b)
    [] distance.kind = "negzero" -> Lik(1, 1)
    [] distance.kind = "inf" -> Lik(0, 1)
    [] distance.kind = "nan" -> LikNaN
    [] distance.kind = "num" /\ distance.a = 0 -> Lik(1, 1)

\* f64 multiplication.
LikMul(x, y) ==
  IF x.nan \/ y.nan THEN LikNaN ELSE Lik(x.num * y.num, x.den * y.den)

\* Mutant of LikGreater: >= for >.
LikGreaterOrEqual(x, y) == ~x.nan /\ ~y.nan /\ x.num * y.den >= y.num * x.den

\* x > y on f64: false when either is NaN.
LikGreater(x, y) == ~x.nan /\ ~y.nan /\ x.num * y.den > y.num * x.den

\* Mutant of calculate_likelihood: the right child's likelihood is left out
\* of the product.
RECURSIVE calculate_likelihood_left(_)
calculate_likelihood_left(node) ==
  IF IsLeaf(node) THEN Lik(1, 1)
  ELSE LikMul(calculate_likelihood_left(node.left[1]),
              TransitionProb(node.distance))

\* calculate_likelihood
RECURSIVE calculate_likelihood(_)
calculate_likelihood(node) ==
  IF IsLeaf(node) THEN Lik(1, 1)
  ELSE LikMul(LikMul(calculate_likelihood(node.left[1]),
                     calculate_likelihood(node.right[1])),
              TransitionProb(node.distance))

\* One iteration of the loop of optimize_tree on the working tree and
\* best_likelihood: the root's children are swapped in a copy, which replaces
\* the tree when its likelihood is greater.
OptimizeStep(st) ==
  LET swapped_tree == swap_subtrees(st.tree)
      likelihood == calculate_likelihood(swapped_tree)
  IN  IF LikGreater(likelihood, st.best_likelihood)
      THEN [tree |-> swapped_tree, best_likelihood |-> likelihood]
      ELSE st

----------------------------------------------------------------------------
\* Newick serializer

\* The digits after the decimal point of r / s, for a dyadic fraction.
RECURSIVE FracDigits(_, _)
FracDigits(r, s) ==
  IF r = 0 THEN ""
  ELSE ToString((r * 10) \div s) \o FracDigits((r * 10) % s, s)

Abs(k) == IF k < 0 THEN -k ELSE k

\* Display of the f64 k / Scale: no decimal point for a whole number.
FmtNum(k) ==
  (IF k < 0 THEN "-" ELSE "") \o ToString(Abs(k) \div Scale)
    \o (IF Abs(k) % Scale = 0 THEN "" ELSE "." \o FracDigits(Abs(k) % Scale, Scale))

\* Display of a distance. The decimal expansion of a Jukes-Cantor distance is
\* written as the expression that determines it.
FmtDistance(d) ==
  CASE d.kind = "num" -> FmtNum(d.a)
    [] d.kind = "negzero" -> "-0"
    [] d.kind = "inf" -> "inf"
    [] d.kind = "nan" -> "NaN"
    [] d.kind = "jc" ->
         "-0.75*ln(1-4*(" \o ToString(d.a) \o "/" \o ToString(d.b) \o ")/3)"

\* Mutant of tree_to_newick: each child is annotated with its own distance.
RECURSIVE tree_to_newick_own(_)
tree_to_newick_own(node) ==
  IF IsLeaf(node) THEN <<node.name>>
  ELSE <<"(">> \o tree_to_newick_own(node.left[1])
         \o <<":", FmtDistance(node.left[1].distance), ",">>
         \o tree_to_newick_own(node.right[1])
         \o <<":", FmtDistance(node.right[1].distance), ")">>

\* tree_to_newick, as the sequence of pieces the format! calls put together;
\* the string written is their concatenation.
RECURSIVE tree_to_newick(_)
tree_to_newick(node) ==
  IF IsLeaf(node) THEN <<node.name>>
  ELSE LET left_str == tree_to_newick(node.left[1])
           right_str == tree_to_newick(node.right[1])
       IN  <<"(">> \o left_str \o <<":", FmtDistance(node.distance), ",">>
             \o right_str \o <<":", FmtDistance(node.distance), ")">>

----------------------------------------------------------------------------
\* TreePlugin::build_tree

NoResult == [status |-> "none", msg |-> <<>>]

Ok == [status |-> "ok", msg |-> <<>>]

\* Err of a failed File::open, record or write.
IoError == [status |-> "err", msg |-> <<"io error">>]

\* Err(format!("...: {}", model)): the message ends with the selector.
UnsupportedModel(m) == [status |-> "err", msg |-> <<"unsupported model type: ", m>>]

Panic(what) == [status |-> "panic", msg |-> <<what>>]

Init ==
  /\ input \in Inputs
  /\ model \in Models
  /\ pc = "start"
  /\ names = <<>>
  /\ seqs_only = <<>>
  /\ distance_matrix = <<>>
  /\ n = 0
  /\ dist = <<>>
  /\ node_names = <<>>
  /\ tree_nodes = << >>
  /\ tree = <<>>
  /\ best_likelihood = Lik(1, 1)
  /\ iter = 0
  /\ outfile = <<>>
  /\ result = NoResult
  /\ calls = {}
  /\ last = <<>>
  /\ run = 1
  /\ first = <<>>

\* The run ends: build_tree returns r, or the process panics with r.
Finish(r) ==
  /\ pc' = "done"
  /\ result' = r

\* build_tree up to the match: the records are read (or the read fails and
\* `?` returns the error), names and seqs_only are split off and the distance
\* matrix is computed, whatever the selector.
ReadSequences ==
  /\ pc = "start"
  /\ \E readOk \in BOOLEAN :
       IF readOk
       THEN /\ names' = [k \in 1..Len(input) |-> input[k].id]
            /\ seqs_only' = [k \in 1..Len(input) |-> input[k].seq]
            /\ distance_matrix' = compute_distance_matrix(seqs_only')
            /\ calls' = calls \cup {"read_fasta_sequences", "compute_distance_matrix"}
            /\ pc' = "match"
            /\ UNCHANGED result
       ELSE /\ Finish(IoError)
            /\ calls' = calls \cup {"read_fasta_sequences"}
            /\ UNCHANGED btVars
  /\ UNCHANGED <<inVars, njVars, mlVars, tree, outfile>>

\* The arm "NJ": build_phylogenetic_tree up to its loop.
MatchNJ ==
  /\ pc = "match"
  /\ model = "NJ"
  /\ n' = Len(distance_matrix)
  /\ dist' = distance_matrix
  /\ node_names' = names
  /\ tree_nodes' = InitialNodes(names)
  /\ calls' = calls \cup {"build_phylogenetic_tree"}
  /\ pc' = "nj_loop"
  /\ UNCHANGED <<inVars, btVars, mlVars, tree, outfile, result, last>>

\* One iteration of `while n > 2`. Either unwrap panics when the map holds no
\* node of that name.
NJMerge ==
  /\ pc = "nj_loop"
  /\ n > 2
  /\ LET m == FindMin(dist, n)
         name_i == At(node_names, m.min_i)
         name_j == At(node_names, m.min_j)
         new_node_name == JoinName(name_i, name_j)
         without_i == MapRemove(tree_nodes, name_i)
         without_ij == MapRemove(without_i, name_j)
     IN  IF name_i \notin DOMAIN tree_nodes \/ name_j \notin DOMAIN without_i
         THEN /\ Finish(Panic("unwrap on None"))
              /\ UNCHANGED njVars
         ELSE /\ tree_nodes' =
                   MapInsert(without_ij, new_node_name,
                             TreeNode(new_node_name, <<tree_nodes[name_i]>>,
                                      <<without_i[name_j]>>,
                                      Num(At(At(dist, m.min_i), m.min_j) \div 2)))
              /\ dist' = UpdatedDist(dist, n, m.min_i, m.min_j)
              /\ node_names' = UpdatedNames(node_names, m.min_i, m.min_j)
              /\ n' = n - 1
              /\ last' = <<[n |-> n, dist |-> dist, node_names |-> node_names,
                            min_i |-> m.min_i, min_j |-> m.min_j]>>
              /\ UNCHANGED <<pc, result>>
  /\ UNCHANGED <<inVars, btVars, mlVars, tree, outfile, calls>>

\* After the loop: node_names[0] and node_names[1] are joined under the root.
\* Indexing panics on fewer than two names, unwrap on a name the map lacks.
NJRoot ==
  /\ pc = "nj_loop"
  /\ ~(n > 2)
  /\ IF Len(node_names) < 2
     THEN /\ Finish(Panic("index out of bounds"))
          /\ UNCHANGED <<tree_nodes, tree>>
     ELSE LET name_0 == At(node_names, 0)
              name_1 == At(node_names, 1)
              without_0 == MapRemove(tree_nodes, name_0)
          IN  IF name_0 \notin DOMAIN tree_nodes \/ name_1 \notin DOMAIN without_0
              THEN /\ Finish(Panic("unwrap on None"))
                   /\ UNCHANGED <<tree_nodes, tree>>
              ELSE /\ tree_nodes' = MapRemove(without_0, name_1)
                   /\ tree' = <<TreeNode(JoinName(name_0, name_1),
                                         <<tree_nodes[name_0]>>,
                                         <<without_0[name_1]>>, Zero)>>
                   /\ pc' = "newick"
                   /\ UNCHANGED result
  /\ UNCHANGED <<inVars, btVars, mlVars, n, dist, node_names, last, outfile, calls>>

\* build_maximum_likelihood_tree up to the loop of optimize_tree. names[0] of
\* build_initial_tree panics on an empty map; otherwise the map yields its keys
\* in some order.
EnterML ==
  /\ calls' = calls \cup {"build_maximum_likelihood_tree"}
  /\ IF DOMAIN sequence_map(seqs_only, names) = {}
     THEN /\ Finish(Panic("index out of bounds"))
          /\ UNCHANGED <<tree, mlVars>>
     ELSE /\ \E order \in KeyOrders(sequence_map(seqs_only, names)) :
               tree' = <<build_initial_tree(sequence_map(seqs_only, names), order)>>
          /\ best_likelihood' = calculate_likelihood(tree'[1])
          /\ iter' = 0
          /\ pc' = "optimize"
          /\ UNCHANGED result
  /\ UNCHANGED <<inVars, btVars, njVars, outfile>>

\* The arm "ML".
MatchML ==
  /\ pc = "match"
  /\ model = "ML"
  /\ EnterML

\* One iteration of `for _ in 0..100` of optimize_tree.
OptimizeIter ==
  /\ pc = "optimize"
  /\ iter < Iterations
  /\ LET st == OptimizeStep([tree |-> tree[1], best_likelihood |-> best_likelihood])
     IN  /\ tree' = <<st.tree>>
         /\ best_likelihood' = st.best_likelihood
  /\ iter' = iter + 1
  /\ UNCHANGED <<inVars, btVars, njVars, pc, outfile, result, calls>>

\* The loop of optimize_tree is over: build_maximum_likelihood_tree returns.
OptimizeReturn ==
  /\ pc = "optimize"
  /\ ~(iter < Iterations)
  /\ pc' = "newick"
  /\ UNCHANGED <<inVars, btVars, njVars, mlVars, tree, outfile, result, calls>>

\* Mutant of MatchOther: the arm `_` builds the heuristic tree, as a default.
MatchOtherAsML ==
  /\ pc = "match"
  /\ model \notin {"ML", "NJ"}
  /\ EnterML

\* The arm `_`: the error is returned; no builder runs, nothing is written.
MatchOther ==
  /\ pc = "match"
  /\ model \notin {"ML", "NJ"}
  /\ Finish(UnsupportedModel(model))
  /\ UNCHANGED <<inVars, btVars, njVars, mlVars, tree, outfile, calls>>

\* tree_to_newick and write(newick_file, newick)?.
WriteNewick ==
  /\ pc = "newick"
  /\ calls' = calls \cup {"tree_to_newick"}
  /\ \E writeOk \in BOOLEAN :
       IF writeOk
       THEN /\ outfile' = <<tree_to_newick(tree[1])>>
            /\ Finish(Ok)
       ELSE /\ Finish(IoError)
            /\ UNCHANGED outfile
  /\ UNCHANGED <<inVars, btVars, njVars, mlVars, tree>>

\* The program is started again on the same file and selector.
Rerun ==
  /\ pc = "done"
  /\ run = 1
  /\ first' = <<[result |-> result, outfile |-> outfile]>>
  /\ run' = 2
  /\ pc' = "start"
  /\ names' = <<>>
  /\ seqs_only' = <<>>
  /\ distance_matrix' = <<>>
  /\ n' = 0
  /\ dist' = <<>>
  /\ node_names' = <<>>
  /\ tree_nodes' = << >>
  /\ tree' = <<>>
  /\ best_likelihood' = Lik(1, 1)
  /\ iter' = 0
  /\ outfile' = <<>>
  /\ result' = NoResult
  /\ calls' = {}
  /\ last' = <<>>
  /\ UNCHANGED <<input, model>>

Next ==
  \/ ReadSequences
  \/ MatchNJ
  \/ NJMerge
  \/ NJRoot
  \/ MatchML
  \/ OptimizeIter
  \/ OptimizeReturn
  \/ MatchOther
  \/ WriteNewick

\* One run of the program.
Spec == Init /\ [][Next]_vars

NextTwice == Next \/ Rerun

\* Two runs of the program on the same input.
SpecTwice == Init /\ [][NextTwice]_vars

----------------------------------------------------------------------------
\* Vocabulary of the properties

\* The leaf names of a tree, left to right.
RECURSIVE LeafNames(_)
LeafNames(t) ==
  IF IsLeaf(t) THEN <<t.name>>
  ELSE (IF t.left = <<>> THEN <<>> ELSE LeafNames(t.left[1]))
         \o (IF t.right = <<>> THEN <<>> ELSE LeafNames(t.right[1]))

\* The number of nodes with a child.
RECURSIVE InternalCount(_)
InternalCount(t) ==
  IF IsLeaf(t) THEN 0
  ELSE 1 + (IF t.left = <<>> THEN 0 ELSE InternalCount(t.left[1]))
         + (IF t.right = <<>> THEN 0 ELSE InternalCount(t.right[1]))

\* Every node has no child or two.
RECURSIVE StrictlyBinary(_)
StrictlyBinary(t) ==
  \/ IsLeaf(t)
  \/ /\ t.left # <<>>
     /\ t.right # <<>>
     /\ StrictlyBinary(t.left[1])
     /\ StrictlyBinary(t.right[1])

\* The identifiers of the input are pairwise distinct.
DistinctIds == \A a, b \in 1..Len(input) : a # b => input[a].id # input[b].id

\* s and t hold the same elements, each as often.
SameElements(s, t) ==
  /\ Len(s) = Len(t)
  /\ \A x \in Range(s) \cup Range(t) :
       Cardinality({ k \in 1..Len(s) : s[k] = x })
         = Cardinality({ k \in 1..Len(t) : t[k] = x })

\* build_phylogenetic_tree was entered and the run is over.
NJOver == pc = "done" /\ "build_phylogenetic_tree" \in calls

\* The run is inside the loop of build_phylogenetic_tree or at the root join.
InNJ == pc = "nj_loop"

----------------------------------------------------------------------------
\* C1: for n >= 2 taxa with pairwise distinct identifiers,
\* build_phylogenetic_tree returns a tree with exactly n leaves named by the
\* input identifiers, each once, exactly n - 1 internal nodes, and no node
\* with a single child.
C1_NJTreeShape ==
  (NJOver /\ Len(input) >= 2 /\ DistinctIds) =>
     /\ tree # <<>>
     /\ SameElements(LeafNames(tree[1]), names)
     /\ InternalCount(tree[1]) = Len(input) - 1
     /\ StrictlyBinary(tree[1])

\* C2: at every point of the neighbor-joining loop (before the first merge,
\* after every merge, at the root join) the length of the name list, the
\* number of rows of the matrix, the length of every row and the number of
\* entries of the name-to-node map all equal the active count n. Stated for
\* inputs of pairwise distinct identifiers, the only ones the data model admits.
C2_SizesAgree ==
  (InNJ /\ DistinctIds) =>
     /\ Len(node_names) = n
     /\ Len(dist) = n
     /\ \A r \in 1..Len(dist) : Len(dist[r]) = n
     /\ Cardinality(DOMAIN tree_nodes) = n

\* C3: at every point of the clustering, initially and after every merge,
\* every diagonal entry of the live matrix is 0, that of the row and column
\* appended for the merged node included.
C3_ZeroDiagonal ==
  InNJ => \A i \in Indices(dist) : At(At(dist, i), i) = 0

\* C4: at every point of the clustering, initially and after every merge, the
\* live matrix is symmetric: d[i][j] = d[j][i] for all active i, j.
C4_Symmetric ==
  InNJ => \A i, j \in Indices(dist) : At(At(dist, i), j) = At(At(dist, j), i)

\* C4 witness: a merge has appended a row whose entry for another active node
\* is not zero.
C4_Witness ==
  /\ InNJ
  /\ last # <<>>
  /\ \E i \in 0..(n - 2) : At(At(dist, n - 1), i) # 0

\* C5: a request with fewer than 2 taxa, for the selector "NJ" or "ML", is
\* rejected with an error: nothing is indexed on the empty or singleton
\* structures (so nothing panics), no tree is built and nothing is written.
C5_InsufficientTaxaRejected ==
  (/\ pc = "done"
   /\ model \in {"NJ", "ML"}
   /\ "compute_distance_matrix" \in calls
   /\ Len(input) < 2) =>
     /\ result.status = "err"
     /\ tree = <<>>
     /\ outfile = <<>>

\* C5 (what the code does instead): the same request either panics or, for
\* one taxon under "ML", succeeds and writes the taxon's name.
C5_Observed ==
  (/\ pc = "done"
   /\ model \in {"NJ", "ML"}
   /\ "compute_distance_matrix" \in calls
   /\ Len(input) < 2) =>
     \/ result.status = "panic"
     \/ /\ model = "ML"
        /\ Len(input) = 1
        /\ (result.status = "ok" => outfile = <<<<input[1].id>>>>)
        /\ (result.status # "ok" => result = IoError /\ outfile = <<>>)

----------------------------------------------------------------------------
\* The builders build_tree can call.
Builders == {"build_phylogenetic_tree", "build_maximum_likelihood_tree"}

\* C6: for a selector other than "NJ" and "ML", build_tree (once it has the
\* records) returns the unsupported-model error whose message holds the
\* selector; no builder is called, no tree is built and nothing is written,
\* at any point of the run.
C6_UnsupportedSelector ==
  model \notin {"NJ", "ML"} =>
     /\ calls \cap Builders = {}
     /\ "tree_to_newick" \notin calls
     /\ tree = <<>>
     /\ outfile = <<>>
     /\ (pc = "done" /\ "compute_distance_matrix" \in calls) =>
          /\ result.status = "err"
          /\ result = UnsupportedModel(model)
          /\ model \in Range(result.msg)

\* C6 witness: the run on "UNKNOWN" with two or more taxa has returned the error.
C6_Witness ==
  /\ pc = "done"
  /\ model = "UNKNOWN"
  /\ Len(input) >= 2
  /\ result.status = "err"
  /\ "UNKNOWN" \in Range(result.msg)

----------------------------------------------------------------------------
\* C7: two runs on the same ordered records and the same selector write the
\* same output, for "NJ" and for "ML" alike.
C7_Deterministic ==
  (/\ run = 2
   /\ pc = "done"
   /\ result.status = "ok"
   /\ first[1].result.status = "ok") =>
     outfile = first[1].outfile

\* C7 for the neighbor-joining path alone.
C7_DeterministicNJ == model = "NJ" => C7_Deterministic

----------------------------------------------------------------------------
\* Reading a Newick token sequence back

\* What a rendering says: a bare name, or two renderings with the distance
\* written after each.
LeafShape(name) == [name |-> name, left |-> <<>>, right |-> <<>>, dl |-> "", dr |-> ""]

NodeShape(l, dl, r, dr) == [name |-> "", left |-> <<l>>, right |-> <<r>>, dl |-> dl, dr |-> dr]

\* The rendering that starts at position p: "(" opens two renderings, each
\* followed by ":" and a distance, separated by "," and closed by ")";
\* anything else is a name.
RECURSIVE ParseAt(_, _)
ParseAt(toks, p) ==
  IF p > Len(toks) THEN [ok |-> FALSE, shape |-> LeafShape(""), next |-> p]
  ELSE IF toks[p] # "(" THEN [ok |-> TRUE, shape |-> LeafShape(toks[p]), next |-> p + 1]
  ELSE LET l == ParseAt(toks, p + 1)
           r == ParseAt(toks, l.next + 3)
       IN  IF ~l.ok \/ l.next + 3 > Len(toks) THEN [l EXCEPT !.ok = FALSE]
           ELSE IF ~r.ok \/ r.next + 2 > Len(toks) THEN [r EXCEPT !.ok = FALSE]
           ELSE [ok |-> /\ toks[l.next] = ":"
                        /\ toks[l.next + 2] = ","
                        /\ toks[r.next] = ":"
                        /\ toks[r.next + 2] = ")",
                 shape |-> NodeShape(l.shape, toks[l.next + 1], r.shape, toks[r.next + 1]),
                 next |-> r.next + 3]

\* What the claim says the rendering of a tree is: a leaf is its name, an
\* internal node annotates both children with its own distance.
RECURSIVE ClaimedShape(_)
ClaimedShape(t) ==
  IF IsLeaf(t) THEN LeafShape(t.name)
  ELSE NodeShape(ClaimedShape(t.left[1]), FmtDistance(t.distance),
                 ClaimedShape(t.right[1]), FmtDistance(t.distance))

\* The names a rendering holds, left to right.
RECURSIVE ShapeNames(_)
ShapeNames(sh) ==
  IF sh.left = <<>> THEN <<sh.name>>
  ELSE ShapeNames(sh.left[1]) \o ShapeNames(sh.right[1])

Count(toks, x) == Cardinality({ k \in 1..Len(toks) : toks[k] = x })

\* The deepest nesting of parentheses in toks[1..k].
RECURSIVE OpenAt(_, _)
OpenAt(toks, k) ==
  IF k = 0 THEN 0
  ELSE OpenAt(toks, k - 1)
         + (IF toks[k] = "(" THEN 1 ELSE IF toks[k] = ")" THEN -1 ELSE 0)

ParenDepth(toks) ==
  IF toks = <<>> THEN 0
  ELSE CHOOSE d \in 0..Len(toks) :
         /\ \E k \in 0..Len(toks) : OpenAt(toks, k) = d
         /\ \A k \in 0..Len(toks) : OpenAt(toks, k) <= d

\* The number of internal nodes on the longest path from the root.
RECURSIVE InternalDepth(_)
InternalDepth(t) ==
  IF IsLeaf(t) THEN 0
  ELSE LET l == InternalDepth(t.left[1])
           r == InternalDepth(t.right[1])
       IN  1 + (IF l > r THEN l ELSE r)

----------------------------------------------------------------------------
\* End-to-end example 1: S1 = AAAA, S2 = AAAT, S3 = TTTT under "NJ"

Example1 ==
  << [id |-> "S1", seq |-> <<"A", "A", "A", "A">>],
     [id |-> "S2", seq |-> <<"A", "A", "A", "T">>],
     [id |-> "S3", seq |-> <<"T", "T", "T", "T">>] >>

OnExample1 == input = Example1 /\ model = "NJ"

\* The positions where "(" S1 ":" d "," S2 ":" d ")" starts in toks.
GroupStarts(toks) ==
  { p \in 1..(Len(toks) - 8) :
      /\ toks[p] = "("
      /\ toks[p + 1] = "S1"
      /\ toks[p + 2] = ":"
      /\ toks[p + 4] = ","
      /\ toks[p + 5] = "S2"
      /\ toks[p + 6] = ":"
      /\ toks[p + 8] = ")" }

Positions(toks, x) == { q \in 1..Len(toks) : toks[q] = x }

\* The distances are 1, 4 and 3, and the first merge is (S1, S2), whose Q is
\* the lowest of the three pairs.
Example1Clustering ==
  /\ "compute_distance_matrix" \in calls =>
       /\ At(At(distance_matrix, 0), 1) = 1 * Scale
       /\ At(At(distance_matrix, 0), 2) = 4 * Scale
       /\ At(At(distance_matrix, 1), 2) = 3 * Scale
  /\ last # <<>> =>
       /\ last[1].n = 3
       /\ At(last[1].node_names, last[1].min_i) = "S1"
       /\ At(last[1].node_names, last[1].min_j) = "S2"
       /\ \A i, j \in 0..2 :
            i < j => QValue(last[1].dist, 3, 0, 1) <= QValue(last[1].dist, 3, i, j)

\* C9 (as claimed): on example 1 the distances are d(S1,S2) = 1, d(S1,S3) = 4,
\* d(S2,S3) = 3, (S1,S2) is merged first with the lowest Q, and in the output
\* S1 and S2 form one parenthesized group that comes before S3.
C9_GroupBeforeS3 ==
  OnExample1 =>
     /\ Example1Clustering
     /\ outfile # <<>> =>
          \E p \in GroupStarts(outfile[1]) :
            \A q \in Positions(outfile[1], "S3") : p < q

\* C9 (amended): the same, except that the group of S1 and S2 comes after S3:
\* the output is (S3:0,(S1:0.5,S2:0.5):0).
C9_GroupAfterS3 ==
  OnExample1 =>
     /\ Example1Clustering
     /\ outfile # <<>> =>
          /\ \E p \in GroupStarts(outfile[1]) :
               \A q \in Positions(outfile[1], "S3") : q < p
          /\ Positions(outfile[1], "S3") # {}
          /\ Concat(outfile[1]) = "(S3:0,(S1:0.5,S2:0.5):0)"

\* C9 witness: the run on example 1 has written its output.
C9_Witness == OnExample1 /\ pc = "done" /\ outfile # <<>> /\ last # <<>>

----------------------------------------------------------------------------
\* C10: after a merge of i* and j*, for every remaining node k the entry
\* between the new node and k, in the new row and in the new column, at k's
\* position after the two removals, is (d[i*][k] + d[j*][k] - d[i*][j*]) / 2 of
\* the matrix before the merge, and the entries between two remaining nodes
\* are unchanged.
C10_MergedDistances ==
  (InNJ /\ last # <<>>) =>
     LET before == last[1].dist
         i == last[1].min_i
         j == last[1].min_j
         new == n - 1
         Remaining == (0..(last[1].n - 1)) \ {i, j}
         PosAfter(k) == k - (IF k > i THEN 1 ELSE 0) - (IF k > j THEN 1 ELSE 0)
         Expected(k) == At(At(before, i), k) + At(At(before, j), k) - At(At(before, i), j)
     IN  /\ \A k \in Remaining :
              /\ 2 * At(At(dist, new), PosAfter(k)) = Expected(k)
              /\ 2 * At(At(dist, PosAfter(k)), new) = Expected(k)
         /\ \A k, l \in Remaining :
              At(At(dist, PosAfter(k)), PosAfter(l)) = At(At(before, k), l)

\* C10, the part the code keeps: the entries between two remaining nodes are
\* unchanged by a merge.
C10_RemainingUnchanged ==
  (InNJ /\ last # <<>>) =>
     LET before == last[1].dist
         i == last[1].min_i
         j == last[1].min_j
         Remaining == (0..(last[1].n - 1)) \ {i, j}
         PosAfter(k) == k - (IF k > i THEN 1 ELSE 0) - (IF k > j THEN 1 ELSE 0)
     IN  \A k, l \in Remaining :
           At(At(dist, PosAfter(k)), PosAfter(l)) = At(At(before, k), l)

----------------------------------------------------------------------------
\* The Q-criterion as the design states it

\* R_i: the sum of row i of d over all active k.
RowSum(d, nn, i) ==
  LET partial[k \in 0..nn] ==
        IF k = 0 THEN 0 ELSE partial[k - 1] + At(At(d, i), k - 1)
  IN  partial[nn]

\* Q(i, j) = (n - 2) * d[i][j] - R_i - R_j
ClaimedQ(d, nn, i, j) ==
  (nn - 2) * At(At(d, i), j) - RowSum(d, nn, i) - RowSum(d, nn, j)

\* The unordered active pairs.
ActivePairs(nn) == { p \in (0..(nn - 1)) \X (0..(nn - 1)) : p[1] < p[2] }

\* p comes before r in the scan: i ascending, then j ascending.
ScannedBefore(p, r) == p[1] < r[1] \/ (p[1] = r[1] /\ p[2] < r[2])

\* C11: in every iteration of the loop with n > 2 the merged pair (i*, j*),
\* i* < j*, has the lowest Q(i, j) = (n - 2) * d[i][j] - R_i - R_j of all
\* unordered active pairs, and every pair scanned before it (i ascending, then
\* j ascending) has a strictly greater Q.
C11_MinimalQFirstInScan ==
  last # <<>> =>
     LET d == last[1].dist
         nn == last[1].n
         star == <<last[1].min_i, last[1].min_j>>
     IN  /\ nn > 2
         /\ star \in ActivePairs(nn)
         /\ \A p \in ActivePairs(nn) :
              /\ ClaimedQ(d, nn, star[1], star[2]) <= ClaimedQ(d, nn, p[1], p[2])
              /\ ScannedBefore(p, star) =>
                   ClaimedQ(d, nn, star[1], star[2]) < ClaimedQ(d, nn, p[1], p[2])

\* C11 witness: a merge among four active nodes took a pair other than the
\* first one scanned, and a later pair ties with it.
C11_Witness ==
  /\ last # <<>>
  /\ last[1].n = 4
  /\ <<last[1].min_i, last[1].min_j>> # <<0, 1>>
  /\ \E p \in ActivePairs(4) :
       /\ ScannedBefore(<<last[1].min_i, last[1].min_j>>, p)
       /\ ClaimedQ(last[1].dist, 4, p[1], p[2])
            = ClaimedQ(last[1].dist, 4, last[1].min_i, last[1].min_j)

----------------------------------------------------------------------------
\* Phase A of the heuristic builder as the design states it

\* A tree with the names of its internal nodes blanked: the design does not
\* name them.
RECURSIVE WithoutInnerNames(_)
WithoutInnerNames(t) ==
  IF IsLeaf(t) THEN t
  ELSE [t EXCEPT !.name = "",
                 !.left = IF t.left = <<>> THEN <<>>
                          ELSE <<WithoutInnerNames(t.left[1])>>,
                 !.right = IF t.right = <<>> THEN <<>>
                           ELSE <<WithoutInnerNames(t.right[1])>>]

\* The caterpillar of the taxa t1..tk in input order: t1 the innermost leaf,
\* the k-th insertion a node over the tree of t1..t(k-1) on the left and a
\* fresh leaf tk on the right, at the Jukes-Cantor distance of t(k-1) and tk.
RECURSIVE ClaimedPhaseA(_)
ClaimedPhaseA(k) ==
  IF k = 1 THEN NewNode(input[1].id)
  ELSE TreeNode("", <<ClaimedPhaseA(k - 1)>>, <<NewNode(input[k].id)>>,
                jukes_cantor_distance(input[k - 1].seq, input[k].seq))

\* Phase A has just returned its tree to build_maximum_likelihood_tree.
PhaseAReturned ==
  /\ pc = "optimize"
  /\ iter = 0
  /\ "build_maximum_likelihood_tree" \in calls

\* C12: for n >= 1 taxa with distinct identifiers in input order t1..tn,
\* Phase A returns the caterpillar with n leaves and n - 1 internal nodes
\* whose innermost leaf is t1 and whose k-th insertion has the tree of
\* t1..t(k-1) on the left, a fresh leaf tk on the right, and the
\* Jukes-Cantor distance of t(k-1) and tk.
C12_PhaseAInputOrder ==
  (PhaseAReturned /\ DistinctIds) =>
     /\ Len(LeafNames(tree[1])) = Len(input)
     /\ InternalCount(tree[1]) = Len(input) - 1
     /\ WithoutInnerNames(tree[1]) = ClaimedPhaseA(Len(input))

\* What Phase A does return: a caterpillar of the n taxa in some order, every
\* right child a leaf.
RECURSIVE RightChildrenAreLeaves(_)
RightChildrenAreLeaves(t) ==
  \/ IsLeaf(t)
  \/ /\ t.left # <<>>
     /\ t.right # <<>>
     /\ IsLeaf(t.right[1])
     /\ RightChildrenAreLeaves(t.left[1])

C12_CaterpillarInSomeOrder ==
  (PhaseAReturned /\ DistinctIds) =>
     /\ Len(LeafNames(tree[1])) = Len(input)
     /\ InternalCount(tree[1]) = Len(input) - 1
     /\ RightChildrenAreLeaves(tree[1])
     /\ Range(LeafNames(tree[1])) = { input[k].id : k \in 1..Len(input) }

----------------------------------------------------------------------------
\* Phase B of the heuristic builder as the design states it

\* The likelihood x is strictly above y.
StrictlyExceeds(x, y) == ~x.nan /\ ~y.nan /\ x.num * y.den > y.num * x.den

\* c is t with the two children of the root exchanged and nothing else
\* touched.
RootChildrenSwapped(t, c) ==
  /\ c.name = t.name
  /\ c.distance = t.distance
  /\ c.left = t.right
  /\ c.right = t.left

\* A step taken inside optimize_tree: an iteration below the budget stays in
\* the loop and counts one up, replaces the working tree by nothing but the
\* candidate and only when the candidate's likelihood is strictly above the
\* best so far, and never lowers the best; the loop is left at the budget
\* and not before.
OptimizeLoopStep ==
  /\ (pc # "optimize" /\ pc' = "optimize") => iter' = 0
  /\ pc = "optimize" =>
       IF iter < Iterations
       THEN /\ pc' = "optimize"
            /\ iter' = iter + 1
            /\ tree' # tree =>
                 /\ RootChildrenSwapped(tree[1], tree'[1])
                 /\ StrictlyExceeds(calculate_likelihood(tree'[1]), best_likelihood)
            /\ ~StrictlyExceeds(best_likelihood, best_likelihood')
       ELSE /\ iter = Iterations
            /\ pc' = "newick"
            /\ tree' = tree

\* C13: optimize_tree ends after exactly 100 iterations (every step of the
\* loop counts one up from 0 and the loop is left at 100) with no early exit,
\* the candidate of each iteration is the working tree with the two children
\* of the root exchanged and no other node touched, the working tree is
\* replaced by the candidate only when the candidate's likelihood is strictly
\* above the best seen so far, and the best likelihood never decreases.
C13_OptimizeLoop ==
  /\ [](pc = "optimize" =>
          /\ iter \in 0..Iterations
          /\ RootChildrenSwapped(tree[1], swap_subtrees(tree[1])))
  /\ [][OptimizeLoopStep]_vars

\* C13 witness: optimize_tree has returned after its 100 iterations on a
\* tree whose root has two children.
C13_Witness ==
  /\ pc = "newick"
  /\ "build_maximum_likelihood_tree" \in calls
  /\ iter = Iterations
  /\ ~IsLeaf(tree[1])

----------------------------------------------------------------------------
\* What the product in calculate_likelihood implies for Phase B

\* Two likelihoods are the same f64 value.
SameLikelihood(x, y) == x.nan = y.nan /\ x.num * y.den = y.num * x.den

\* Some node of the tree has an infinite branch distance.
RECURSIVE HasInfiniteBranch(_)
HasInfiniteBranch(t) ==
  \/ t.distance.kind = "inf"
  \/ (t.left # <<>> /\ HasInfiniteBranch(t.left[1]))
  \/ (t.right # <<>> /\ HasInfiniteBranch(t.right[1]))

\* C14 (implicit): the likelihood is a product over both children and the
\* node's own factor, so exchanging the root's children never changes it and
\* the test for a strict improvement never succeeds: whatever the tree,
\* infinite branch distances included, optimize_tree leaves the tree and the
\* best likelihood as they are in each of its 100 iterations, and
\* build_maximum_likelihood_tree returns the tree of Phase A.
C14_SwapNeverImproves ==
  /\ [](pc = "optimize" =>
          /\ SameLikelihood(calculate_likelihood(swap_subtrees(tree[1])),
                            calculate_likelihood(tree[1]))
          /\ SameLikelihood(best_likelihood, calculate_likelihood(tree[1])))
  /\ [][pc = "optimize" =>
          /\ tree' = tree
          /\ best_likelihood' = best_likelihood]_vars

\* C14 witness: the 100 iterations are over on a tree of at least three taxa
\* with an infinite branch distance, and with a finite one at the root.
C14_Witness ==
  /\ pc = "newick"
  /\ "build_maximum_likelihood_tree" \in calls
  /\ iter = Iterations
  /\ Len(LeafNames(tree[1])) >= 3
  /\ HasInfiniteBranch(tree[1])
  /\ tree[1].distance.kind = "jc"

====
